---- MODULE Spec2Model ----
(***************************************************************************)
(* Model of lib/protoparser/prometheus/streamparser.go: ParseStream, the   *)
(* streamContext Read step, and the two-tier streamContext pool            *)
(* (streamContextPoolCh backed by streamContextPool).                      *)
(*                                                                         *)
(* Several ParseStream calls run concurrently.  Each call is a small       *)
(* program counter machine; the steps that touch the pool are separate     *)
(* actions, as the select statements and sync.Pool calls are separate      *)
(* operations in the code.                                                 *)
(*                                                                         *)
(* common.ReadLinesBlock, Rows.Unmarshal and common.GetGzipReader are not  *)
(* part of streamparser.go.  They are modelled from the specification's    *)
(* description of the refill, decode and wrap collaborators.               *)
(* The three metrics counters (readCalls, readErrors, rowsRead) are        *)
(* increment-only and never read back; they are left out of the state.     *)
(***************************************************************************)
EXTENDS Integers, Sequences, FiniteSets, TLC

(* ------------------------------------------------------------------ *)
(* Bounds of the model                                                 *)
(* ------------------------------------------------------------------ *)

\* Number of refills that may time out: the clock stops at
\* Second + MaxTicks * flushTimeout.
MaxTicks == 2

\* Bytes the source delivers during one call, concurrent specification.
MaxSent == 3

\* Bytes the source delivers during one call, single-call specification.
MaxStreamSent == 4

\* Read calls a direct user of a context makes on it.
MaxReads == 4

\* The concurrent ParseStream callers.
Calls == {1, 2}

\* Identities of streamContext objects: one more than there are callers.
CtxIds == 1 .. (Cardinality(Calls) + 1)

\* No context.
NoCtx == 0

(* ------------------------------------------------------------------ *)
(* Program constants                                                   *)
(* ------------------------------------------------------------------ *)

\* time.Second. The model's clock counts microseconds, not nanoseconds, so
\* that every time fits the model checker's integers.
Second == 1000000

\* const flushTimeout = 3 * time.Second
flushTimeout == 3 * Second

\* cap(streamContextPoolCh) = runtime.GOMAXPROCS(-1)
PoolChCap == 1

(* ------------------------------------------------------------------ *)
(* Errors: an error is the chain of its wrappers, outermost first       *)
(* ------------------------------------------------------------------ *)

Nil == <<>>

\* io.EOF
EOF == <<"EOF">>

\* A net.Error whose Timeout() is true.
ErrTimeout == <<"net: i/o timeout">>

\* A read error that is neither a timeout nor io.EOF.
ErrReset == <<"net: connection reset">>

\* The error SetReadDeadline returns on failure.
ErrClosed == <<"use of closed network connection">>

\* The error the gzip reader returns for a bad header.
ErrHeader == <<"gzip: invalid header">>

\* fmt.Errorf(msg + ": %w", err)
Wrap(msg, err) == <<msg>> \o err

\* errors.As(err, &ne) && ne.Timeout(): looks through the wrappers.
IsTimeout(err) == \E i \in DOMAIN err : err[i] = ErrTimeout[1]

\* The errors a callback may return; io.EOF is one of them.
CallbackErrors == {<<"callback failed">>, EOF}

(* ------------------------------------------------------------------ *)
(* Bytes, lines and rows                                               *)
(* ------------------------------------------------------------------ *)

\* The newline byte.
NL == "nl"

\* "m": a byte of a metric line; "t": a byte that gives the line a timestamp.
Byte == {"m", "t", NL}

RECURSIVE SeqsOfLen(_)
SeqsOfLen(n) ==
  IF n = 0 THEN { <<>> }
  ELSE { Append(s, b) : s \in SeqsOfLen(n - 1), b \in Byte }

\* All byte strings of length at most n.
SeqsUpTo(n) == UNION { SeqsOfLen(k) : k \in 0 .. n }

HasNL(s) == \E i \in DOMAIN s : s[i] = NL

\* Index of the last newline of s, 0 when there is none.
LastNL(s) ==
  IF HasNL(s) THEN CHOOSE i \in DOMAIN s :
                     /\ s[i] = NL
                     /\ \A j \in DOMAIN s : s[j] = NL => j <= i
  ELSE 0

\* Index of the first newline of s, 0 when there is none.
FirstNL(s) ==
  IF HasNL(s) THEN CHOOSE i \in DOMAIN s :
                     /\ s[i] = NL
                     /\ \A j \in DOMAIN s : s[j] = NL => j >= i
  ELSE 0

\* The timestamp a line carries: 0 (unset) when it has no "t" byte.
LineTimestamp(line) == Len(SelectSeq(line, LAMBDA b : b = "t"))

\* One decoded row.
Row(line) == [Metric |-> line, Timestamp |-> LineTimestamp(line)]

\* Rows.Unmarshal: one row per non-empty line of s, in order.
RECURSIVE Unmarshal(_)
Unmarshal(s) ==
  IF s = <<>> THEN <<>>
  ELSE LET i    == FirstNL(s)
           line == IF i = 0 THEN s ELSE SubSeq(s, 1, i - 1)
           rest == IF i = 0 THEN <<>> ELSE SubSeq(s, i + 1, Len(s))
       IN (IF line = <<>> THEN <<>> ELSE << Row(line) >>) \o Unmarshal(rest)

\* A backfill that stamps every row, also one that has a timestamp.
FillTimestampsOverwrites(rows, currentTimestamp) ==
  [ i \in DOMAIN rows |-> [ rows[i] EXCEPT !.Timestamp = currentTimestamp ] ]

\* Lines 75-81: rows with the unset timestamp get currentTimestamp.
FillTimestamps(rows, currentTimestamp) ==
  [ i \in DOMAIN rows |->
      IF rows[i].Timestamp = 0
      THEN [ rows[i] EXCEPT !.Timestamp = currentTimestamp ]
      ELSE rows[i] ]

\* time.Now().UnixNano() / 1e6: the clock's time in milliseconds.
UnixMilli(t) == t \div 1000

(* ------------------------------------------------------------------ *)
(* streamContext                                                       *)
(* ------------------------------------------------------------------ *)

\* &streamContext{}: the zero value.
NewStreamContext == [ Rows |-> <<>>, reqBuf |-> <<>>, tailBuf |-> <<>>, err |-> Nil ]

\* Error() without the translation of io.EOF.
ErrorKeepsEOF(ctx) == ctx.err

\* func (ctx *streamContext) Error() error
Error(ctx) == IF ctx.err = EOF THEN Nil ELSE ctx.err

\* reset() that forgets the tail buffer and the error.
resetKeepsTailAndErr(ctx) ==
  [ Rows |-> <<>>, reqBuf |-> <<>>, tailBuf |-> ctx.tailBuf, err |-> ctx.err ]

\* func (ctx *streamContext) reset()
reset(ctx) == [ Rows |-> <<>>, reqBuf |-> <<>>, tailBuf |-> <<>>, err |-> Nil ]

(* ------------------------------------------------------------------ *)
(* State                                                               *)
(* ------------------------------------------------------------------ *)

VARIABLES
  call,                 \* per caller: the state of its ParseStream call
  hist,                 \* per caller: what the call has done so far (history)
  ctxs,                 \* the fields of every streamContext object
  live,                 \* the streamContext objects that exist
  streamContextPoolCh,  \* the bounded tier: a buffered channel
  streamContextPool,    \* the overflow tier: a sync.Pool
  now,                  \* the wall clock, microseconds
  discarded,            \* whether sync.Pool has ever dropped a context
  peak                  \* the most calls that were in progress at one time

vars == << call, hist, ctxs, live, streamContextPoolCh, streamContextPool,
           now, discarded, peak >>

\* A caller that is not inside ParseStream.
IdleCall ==
  [ pc        |-> "idle",
    isGzipped |-> FALSE,   \* the isGzipped argument
    srcIsConn |-> FALSE,   \* the caller's r is a net.Conn
    rIsConn   |-> FALSE,   \* r as Read sees it is a net.Conn
    deadline  |-> 0,       \* the read deadline set on the connection, 0: none
    srcEnded  |-> FALSE,   \* the source has reported its end to the refill
    ctx       |-> NoCtx,   \* the context the call holds
    ret       |-> Nil ]    \* the value ParseStream returns

\* The history of a call that has done nothing yet.
NoHist ==
  [ sent      |-> <<>>,    \* every byte the source has delivered
    cbRows    |-> <<>>,    \* the batches passed to the callback, concatenated
    lastBatch |-> <<>>,    \* the batch of the latest callback invocation
    nRead     |-> 0,       \* Read steps started
    nRefill   |-> 0,       \* refills performed
    nTrue     |-> 0,       \* Read steps that returned true
    nCb       |-> 0,       \* callback invocations
    nPut      |-> 0,       \* times the context was handed back to a tier
    gotFrom   |-> "none",  \* where the context came from ("ch", "pool",
                           \* "new"), until the call's first Read step
    outcome   |-> "none",  \* how the latest refill ended
    stored    |-> Nil,     \* the error line 55 stored in ctx.err, latest refill
    timeouts  |-> 0,       \* refills that timed out
    midLine   |-> FALSE,   \* a refill timed out with a partial line read
    carried   |-> FALSE,   \* a refill returned a partial line in its tail
    cbErr     |-> Nil,     \* the error a callback invocation returned
    exit      |-> "none" ] \* the path by which the call left its loop

Init ==
  /\ call = [ p \in Calls |-> IdleCall ]
  /\ hist = [ p \in Calls |-> NoHist ]
  /\ ctxs = [ c \in CtxIds |-> NewStreamContext ]
  /\ live = {}
  /\ streamContextPoolCh = <<>>
  /\ streamContextPool = {}
  /\ now = Second
  /\ discarded = FALSE
  /\ peak = 0

\* The calls between the start of their acquire and the end of their release.
InProgress(cl) == { p \in Calls : cl[p].pc \notin {"idle", "done"} }

Max(a, b) == IF a >= b THEN a ELSE b

(* ------------------------------------------------------------------ *)
(* ParseStream, lines 22-31: entry                                     *)
(* ------------------------------------------------------------------ *)

\* Lines 23-30: r as Read sees it. The gzip reader is not a net.Conn.
WrapReader(isGz, srcIsConn) == IF isGz THEN FALSE ELSE srcIsConn

\* A caller enters ParseStream with isGzipped in GZ and a source that is a
\* connection or not (CONN); with isGzipped the wrapper is established.
ParseStream(p, GZ, CONN) ==
  /\ call[p].pc \in {"idle", "done"}
  /\ \E gz \in GZ, conn \in CONN :
       call' = [ call EXCEPT ![p] =
                   [ IdleCall EXCEPT !.pc = "get_ch",
                                     !.isGzipped = gz,
                                     !.srcIsConn = conn,
                                     !.rIsConn = WrapReader(gz, conn) ] ]
  /\ hist' = [ hist EXCEPT ![p] = NoHist ]
  /\ peak' = Max(peak, Cardinality(InProgress(call')))
  /\ UNCHANGED << ctxs, live, streamContextPoolCh, streamContextPool, now,
                  discarded >>

\* A ParseStream that takes a context from the channel before it sets up
\* the gzip reader and returns on the failure without releasing it.
ParseStreamGzipErrorAfterGet(p, CONN) ==
  /\ call[p].pc \in {"idle", "done"}
  /\ \E conn \in CONN :
       call' = [ call EXCEPT ![p] =
                   [ IdleCall EXCEPT
                       !.pc = "done",
                       !.isGzipped = TRUE,
                       !.srcIsConn = conn,
                       !.ret = Wrap("cannot read gzipped lines with Prometheus exposition format",
                                    ErrHeader) ] ]
  /\ hist' = [ hist EXCEPT ![p] = [ NoHist EXCEPT !.exit = "gzip" ] ]
  /\ streamContextPoolCh' = IF streamContextPoolCh # <<>>
                            THEN Tail(streamContextPoolCh)
                            ELSE streamContextPoolCh
  /\ UNCHANGED << ctxs, live, streamContextPool, now, discarded, peak >>

\* Lines 24-27: common.GetGzipReader fails; ParseStream returns at once.
ParseStreamGzipError(p, CONN) ==
  /\ call[p].pc \in {"idle", "done"}
  /\ \E conn \in CONN :
       call' = [ call EXCEPT ![p] =
                   [ IdleCall EXCEPT
                       !.pc = "done",
                       !.isGzipped = TRUE,
                       !.srcIsConn = conn,
                       !.ret = Wrap("cannot read gzipped lines with Prometheus exposition format",
                                    ErrHeader) ] ]
  /\ hist' = [ hist EXCEPT ![p] = [ NoHist EXCEPT !.exit = "gzip" ] ]
  /\ UNCHANGED << ctxs, live, streamContextPoolCh, streamContextPool, now,
                  discarded, peak >>

(* ------------------------------------------------------------------ *)
(* getStreamContext, lines 112-122                                     *)
(* ------------------------------------------------------------------ *)

\* Line 114: the receive from streamContextPoolCh succeeds.
GetFromCh(p) ==
  /\ call[p].pc = "get_ch"
  /\ streamContextPoolCh # <<>>
  /\ call' = [ call EXCEPT ![p].pc = "read",
                           ![p].ctx = Head(streamContextPoolCh) ]
  /\ streamContextPoolCh' = Tail(streamContextPoolCh)
  /\ hist' = [ hist EXCEPT ![p].gotFrom = "ch" ]
  /\ UNCHANGED << ctxs, live, streamContextPool, now, discarded, peak >>

\* Line 116: the channel is empty, the select takes its default case.
GetChEmpty(p) ==
  /\ call[p].pc = "get_ch"
  /\ streamContextPoolCh = <<>>
  /\ call' = [ call EXCEPT ![p].pc = "get_pool" ]
  /\ UNCHANGED << hist, ctxs, live, streamContextPoolCh, streamContextPool,
                  now, discarded, peak >>

\* An acquire that goes on to allocate although the overflow tier holds a
\* context.
GetFromPoolAllocates(p) ==
  /\ call[p].pc = "get_pool"
  /\ streamContextPool # {}
  /\ call' = [ call EXCEPT ![p].pc = "get_new" ]
  /\ UNCHANGED << hist, ctxs, live, streamContextPoolCh, streamContextPool,
                  now, discarded, peak >>

\* Lines 117-119: streamContextPool.Get() returns a context.
GetFromPool(p) ==
  /\ call[p].pc = "get_pool"
  /\ \E c \in streamContextPool :
       /\ call' = [ call EXCEPT ![p].pc = "read", ![p].ctx = c ]
       /\ streamContextPool' = streamContextPool \ {c}
  /\ hist' = [ hist EXCEPT ![p].gotFrom = "pool" ]
  /\ UNCHANGED << ctxs, live, streamContextPoolCh, now, discarded, peak >>

\* Line 117: streamContextPool.Get() returns nil.
GetPoolEmpty(p) ==
  /\ call[p].pc = "get_pool"
  /\ streamContextPool = {}
  /\ call' = [ call EXCEPT ![p].pc = "get_new" ]
  /\ UNCHANGED << hist, ctxs, live, streamContextPoolCh, streamContextPool,
                  now, discarded, peak >>

\* Line 120: return &streamContext{}.
GetNew(p) ==
  /\ call[p].pc = "get_new"
  /\ CtxIds \ live # {}
  /\ LET c == CHOOSE x \in CtxIds \ live : \A y \in CtxIds \ live : x <= y
     IN /\ call' = [ call EXCEPT ![p].pc = "read", ![p].ctx = c ]
        /\ ctxs' = [ ctxs EXCEPT ![c] = NewStreamContext ]
        /\ live' = live \cup {c}
  /\ hist' = [ hist EXCEPT ![p].gotFrom = "new" ]
  /\ UNCHANGED << streamContextPoolCh, streamContextPool, now, discarded, peak >>

\* sync.Pool may drop what it holds at any time (a garbage collection).
PoolGC ==
  /\ streamContextPool # {}
  /\ live' = live \ streamContextPool
  /\ ctxs' = [ c \in CtxIds |->
                IF c \in streamContextPool THEN NewStreamContext ELSE ctxs[c] ]
  /\ streamContextPool' = {}
  /\ discarded' = TRUE
  /\ UNCHANGED << call, hist, streamContextPoolCh, now, peak >>

(* ------------------------------------------------------------------ *)
(* The refill collaborator, common.ReadLinesBlock                      *)
(* ------------------------------------------------------------------ *)

\* The bytes a source may deliver to one refill, concurrent specification:
\* nothing, or a line followed by the start of the next one.
NewBytes == { <<>>, <<"m", NL, "m">> }

\* The bytes the source may deliver to one refill, single-call
\* specification: every byte string within the bound.
StreamNewBytes == SeqsUpTo(MaxStreamSent)

\* The block up to the last newline of data, and what follows it.
SplitLastNL(data) ==
  LET i == LastNL(data)
  IN [ chunk |-> SubSeq(data, 1, i - 1), tail |-> SubSeq(data, i + 1, Len(data)) ]

\* What refill(source, chunk, tail) may return when the source delivers the
\* bytes new and the read then ends in the way end. The results are
\* [chunk, tail, err, ended]; ended: the source's end was seen by the refill.
\*   "data":    new holds a newline; the block ends at the last newline and
\*              the rest is carried in the tail.
\*   "timeout": the deadline passed before a newline arrived. What was read
\*              so far is either returned as the block or kept in the tail.
\*   "eof":     the stream ended. An unterminated final line is either
\*              returned as a last block (end-of-stream is then reported by
\*              the next refill) or end-of-stream is reported at once.
\*   "error":   any other read error.
ReadLinesBlock(tail, new, end, ended) ==
  LET data == tail \o new
  IN CASE end = "data" ->
            { [ chunk |-> SplitLastNL(data).chunk, tail |-> SplitLastNL(data).tail,
                err |-> Nil, ended |-> FALSE ] }
       [] end = "timeout" ->
            { [ chunk |-> data, tail |-> <<>>, err |-> ErrTimeout, ended |-> FALSE ],
              [ chunk |-> <<>>, tail |-> data, err |-> ErrTimeout, ended |-> FALSE ] }
       [] end = "eof" ->
            { [ chunk |-> data, tail |-> <<>>, err |-> EOF, ended |-> TRUE ] }
            \cup ( IF data # <<>> /\ ~ended
                   THEN { [ chunk |-> data, tail |-> <<>>, err |-> Nil, ended |-> TRUE ] }
                   ELSE {} )
       [] OTHER ->
            { [ chunk |-> data, tail |-> <<>>, err |-> ErrReset, ended |-> FALSE ] }

(* ------------------------------------------------------------------ *)
(* streamContext.Read, lines 43-83                                     *)
(* ------------------------------------------------------------------ *)

\* Read going on to the deadline and the refill whatever ctx.err holds.
ReadBeginIgnoresErr(ctx, rIsConn, deadline, t) ==
  IF rIsConn
  THEN [ pc |-> "refill", deadline |-> t + flushTimeout ]
  ELSE [ pc |-> "refill", deadline |-> deadline ]

\* Lines 45-54 without a failure of SetReadDeadline: the program counter
\* after the check of ctx.err, and the deadline of the connection.
ReadBegin(ctx, rIsConn, deadline, t) ==
  IF ctx.err # Nil
  THEN [ pc |-> "exit", deadline |-> deadline ]
  ELSE IF rIsConn
       THEN [ pc |-> "refill", deadline |-> t + flushTimeout ]
       ELSE [ pc |-> "refill", deadline |-> deadline ]

\* Read decoding the block before it looks at the refill's error.
ReadFinishDecodesFirst(ctx, res, t) ==
  LET c1 == [ ctx EXCEPT !.reqBuf = res.chunk, !.tailBuf = res.tail, !.err = res.err,
                         !.Rows = FillTimestamps(Unmarshal(res.chunk), UnixMilli(t)) ]
  IN IF c1.err # Nil /\ ~IsTimeout(c1.err)
     THEN [ ctx  |-> [ c1 EXCEPT !.err =
                         IF c1.err # EOF
                         THEN Wrap("cannot read graphite plaintext protocol data", c1.err)
                         ELSE c1.err ],
            more |-> FALSE ]
     ELSE [ ctx |-> [ c1 EXCEPT !.err = Nil ], more |-> TRUE ]

\* Read treating a timeout like any other read error.
ReadFinishTimeoutFatal(ctx, res, t) ==
  LET c1 == [ ctx EXCEPT !.reqBuf = res.chunk, !.tailBuf = res.tail, !.err = res.err ]
  IN IF c1.err # Nil
     THEN [ ctx  |-> [ c1 EXCEPT !.err =
                         IF c1.err # EOF
                         THEN Wrap("cannot read graphite plaintext protocol data", c1.err)
                         ELSE c1.err ],
            more |-> FALSE ]
     ELSE [ ctx  |-> [ c1 EXCEPT !.Rows = FillTimestamps(Unmarshal(c1.reqBuf),
                                                         UnixMilli(t)) ],
            more |-> TRUE ]

\* Read not keeping the tail the refill returned.
ReadFinishDropsTail(ctx, res, t) ==
  LET c1 == [ ctx EXCEPT !.reqBuf = res.chunk, !.tailBuf = <<>>, !.err = res.err ]
  IN IF c1.err # Nil /\ ~IsTimeout(c1.err)
     THEN [ ctx  |-> [ c1 EXCEPT !.err =
                         IF c1.err # EOF
                         THEN Wrap("cannot read graphite plaintext protocol data", c1.err)
                         ELSE c1.err ],
            more |-> FALSE ]
     ELSE [ ctx  |-> [ c1 EXCEPT !.err = Nil,
                                 !.Rows = FillTimestamps(Unmarshal(c1.reqBuf),
                                                         UnixMilli(t)) ],
            more |-> TRUE ]

\* Read swallowing every error of the refill, not only a timeout.
ReadFinishSwallowsAll(ctx, res, t) ==
  LET c1 == [ ctx EXCEPT !.reqBuf = res.chunk, !.tailBuf = res.tail, !.err = res.err ]
  IN [ ctx  |-> [ c1 EXCEPT !.err = Nil,
                            !.Rows = FillTimestamps(Unmarshal(c1.reqBuf),
                                                    UnixMilli(t)) ],
       more |-> TRUE ]

\* Read returning false when the decode produced no row.
ReadFinishStopsOnEmpty(ctx, res, t) ==
  LET c1 == [ ctx EXCEPT !.reqBuf = res.chunk, !.tailBuf = res.tail, !.err = res.err ]
  IN IF c1.err # Nil /\ ~IsTimeout(c1.err)
     THEN [ ctx  |-> [ c1 EXCEPT !.err =
                         IF c1.err # EOF
                         THEN Wrap("cannot read graphite plaintext protocol data", c1.err)
                         ELSE c1.err ],
            more |-> FALSE ]
     ELSE [ ctx  |-> [ c1 EXCEPT !.err = Nil,
                                 !.Rows = FillTimestamps(Unmarshal(c1.reqBuf),
                                                         UnixMilli(t)) ],
            more |-> Unmarshal(c1.reqBuf) # <<>> ]

\* Read appending the decoded rows to the rows of the earlier batches.
ReadFinishAppendsRows(ctx, res, t) ==
  LET c1 == [ ctx EXCEPT !.reqBuf = res.chunk, !.tailBuf = res.tail, !.err = res.err ]
  IN IF c1.err # Nil /\ ~IsTimeout(c1.err)
     THEN [ ctx  |-> [ c1 EXCEPT !.err =
                         IF c1.err # EOF
                         THEN Wrap("cannot read graphite plaintext protocol data", c1.err)
                         ELSE c1.err ],
            more |-> FALSE ]
     ELSE [ ctx  |-> [ c1 EXCEPT !.err = Nil,
                                 !.Rows = ctx.Rows \o FillTimestamps(Unmarshal(c1.reqBuf),
                                                                     UnixMilli(t)) ],
            more |-> TRUE ]

\* Lines 55-83: the context after the refill returned res at time t, and
\* whether Read returns true.
ReadFinish(ctx, res, t) ==
  LET c1 == [ ctx EXCEPT !.reqBuf = res.chunk, !.tailBuf = res.tail, !.err = res.err ]
  IN IF c1.err # Nil /\ ~IsTimeout(c1.err)
     THEN [ ctx  |-> [ c1 EXCEPT !.err =
                         IF c1.err # EOF
                         THEN Wrap("cannot read graphite plaintext protocol data", c1.err)
                         ELSE c1.err ],
            more |-> FALSE ]
     ELSE [ ctx  |-> [ c1 EXCEPT !.err = Nil,
                                 !.Rows = FillTimestamps(Unmarshal(c1.reqBuf),
                                                         UnixMilli(t)) ],
            more |-> TRUE ]

\* Lines 44-55: Read starts; the deadline, if any, is set.
ReadStart(p) ==
  /\ call[p].pc = "read"
  /\ LET b == ReadBegin(ctxs[call[p].ctx], call[p].rIsConn, call[p].deadline, now)
     IN call' = [ call EXCEPT ![p].pc = b.pc, ![p].deadline = b.deadline ]
  /\ hist' = [ hist EXCEPT ![p].nRead = @ + 1,
                           ![p].gotFrom = "none",
                           ![p].exit = IF ctxs[call[p].ctx].err # Nil
                                       THEN "sticky" ELSE @ ]
  /\ UNCHANGED << ctxs, live, streamContextPoolCh, streamContextPool, now,
                  discarded, peak >>

\* A failure of SetReadDeadline that ends the Read step without recording
\* the error in ctx.err.
ReadDeadlineErrorNotRecorded(p) ==
  /\ call[p].pc = "read"
  /\ ctxs[call[p].ctx].err = Nil
  /\ call[p].rIsConn
  /\ call' = [ call EXCEPT ![p].pc = "exit" ]
  /\ hist' = [ hist EXCEPT ![p].nRead = @ + 1,
                           ![p].gotFrom = "none",
                           ![p].exit = "deadline" ]
  /\ UNCHANGED << ctxs, live, streamContextPoolCh, streamContextPool, now,
                  discarded, peak >>

\* Lines 49-53: SetReadDeadline fails.
ReadDeadlineError(p) ==
  /\ call[p].pc = "read"
  /\ ctxs[call[p].ctx].err = Nil
  /\ call[p].rIsConn
  /\ ctxs' = [ ctxs EXCEPT ![call[p].ctx].err =
                             Wrap("cannot set read deadline", ErrClosed) ]
  /\ call' = [ call EXCEPT ![p].pc = "exit" ]
  /\ hist' = [ hist EXCEPT ![p].nRead = @ + 1,
                           ![p].gotFrom = "none",
                           ![p].exit = "deadline" ]
  /\ UNCHANGED << live, streamContextPoolCh, streamContextPool, now,
                  discarded, peak >>

\* The latest time the model's clock reaches.
MaxClock == Second + MaxTicks * flushTimeout

\* The time at which a refill returns. The refill is the call's only
\* blocking point: one that times out returns when the deadline is reached,
\* any other returns without the clock advancing.
ReturnTime(end, deadline, t) ==
  IF end = "timeout" THEN Max(t, deadline) ELSE t

\* Lines 55-83 for one return of the refill.
ReadStep(p, new, res, end) ==
  LET c == call[p].ctx
      r == ReadFinish(ctxs[c], res, now')
  IN /\ now' = ReturnTime(end, call[p].deadline, now)
     /\ ctxs' = [ ctxs EXCEPT ![c] = r.ctx ]
     /\ call' = [ call EXCEPT ![p].pc = IF r.more THEN "callback" ELSE "exit",
                              ![p].srcEnded = res.ended ]
     /\ hist' = [ hist EXCEPT
                    ![p].sent = @ \o new,
                    ![p].nRefill = @ + 1,
                    ![p].nTrue = IF r.more THEN @ + 1 ELSE @,
                    ![p].outcome = end,
                    ![p].stored = res.err,
                    ![p].timeouts = IF end = "timeout" THEN @ + 1 ELSE @,
                    ![p].midLine = @ \/ (end = "timeout"
                                         /\ ctxs[c].tailBuf \o new # <<>>),
                    ![p].carried = @ \/ res.tail # <<>>,
                    ![p].exit = IF r.more THEN @
                                ELSE IF res.err = EOF THEN "eof" ELSE "error" ]
     /\ UNCHANGED << live, streamContextPoolCh, streamContextPool,
                     discarded, peak >>

\* The source delivers at least one complete line.
RefillData(p, S, B) ==
  /\ call[p].pc = "refill"
  /\ ~call[p].srcEnded
  /\ \E new \in S :
       /\ Len(hist[p].sent) + Len(new) <= B
       /\ HasNL(new)
       /\ \E res \in ReadLinesBlock(ctxs[call[p].ctx].tailBuf, new, "data", FALSE) :
            ReadStep(p, new, res, "data")

\* The read deadline passes before a newline arrives.
RefillTimeout(p, S, B) ==
  /\ call[p].pc = "refill"
  /\ ~call[p].srcEnded
  /\ call[p].deadline # 0
  /\ call[p].deadline <= MaxClock
  /\ \E new \in S :
       /\ Len(hist[p].sent) + Len(new) <= B
       /\ ~HasNL(new)
       /\ \E res \in ReadLinesBlock(ctxs[call[p].ctx].tailBuf, new, "timeout", FALSE) :
            ReadStep(p, new, res, "timeout")

\* The source ends.
RefillEOF(p, S, B) ==
  /\ call[p].pc = "refill"
  /\ \E new \in S :
       /\ Len(hist[p].sent) + Len(new) <= B
       /\ ~HasNL(new)
       /\ call[p].srcEnded => new = <<>>
       /\ \E res \in ReadLinesBlock(ctxs[call[p].ctx].tailBuf, new, "eof",
                                    call[p].srcEnded) :
            ReadStep(p, new, res, "eof")

\* The read fails with an error that is neither a timeout nor io.EOF.
RefillError(p, S, B) ==
  /\ call[p].pc = "refill"
  /\ ~call[p].srcEnded
  /\ \E new \in S :
       /\ Len(hist[p].sent) + Len(new) <= B
       /\ ~HasNL(new)
       /\ \E res \in ReadLinesBlock(ctxs[call[p].ctx].tailBuf, new, "error", FALSE) :
            ReadStep(p, new, res, "error")

(* ------------------------------------------------------------------ *)
(* ParseStream, lines 33-38: the loop and its exits                    *)
(* ------------------------------------------------------------------ *)

\* The loop left by break on a callback error, so that line 38 decides
\* what is returned.
AfterCallbackBreak(err) ==
  IF err # Nil
  THEN [ pc |-> "exit", ret |-> Nil ]
  ELSE [ pc |-> "read", ret |-> Nil ]

\* A return on a callback error that skips the release of the context.
AfterCallbackNoPut(err) ==
  IF err # Nil
  THEN [ pc |-> "done", ret |-> err ]
  ELSE [ pc |-> "read", ret |-> Nil ]

\* Lines 34-36: where the loop goes after callback returned err.
AfterCallback(err) ==
  IF err # Nil
  THEN [ pc |-> "put_reset", ret |-> err ]
  ELSE [ pc |-> "read", ret |-> Nil ]

\* Line 34: callback(ctx.Rows.Rows) is invoked and returns err.
CallbackReturns(p, err) ==
  /\ call[p].pc = "callback"
  /\ LET a == AfterCallback(err)
     IN call' = [ call EXCEPT ![p].pc = a.pc, ![p].ret = a.ret ]
  /\ hist' = [ hist EXCEPT
                 ![p].nCb = @ + 1,
                 ![p].cbRows = @ \o ctxs[call[p].ctx].Rows,
                 ![p].lastBatch = ctxs[call[p].ctx].Rows,
                 ![p].cbErr = err,
                 ![p].exit = IF err # Nil THEN "callback" ELSE @ ]
  /\ UNCHANGED << ctxs, live, streamContextPoolCh, streamContextPool, now,
                  discarded, peak >>

CallbackOk(p) == CallbackReturns(p, Nil)

CallbackError(p) == \E err \in CallbackErrors : CallbackReturns(p, err)

\* Line 38: return ctx.Error(). The value is taken before the deferred
\* putStreamContext runs.
ReturnError(p) ==
  /\ call[p].pc = "exit"
  /\ call' = [ call EXCEPT ![p].pc = "put_reset",
                           ![p].ret = Error(ctxs[call[p].ctx]) ]
  /\ UNCHANGED << hist, ctxs, live, streamContextPoolCh, streamContextPool,
                  now, discarded, peak >>

(* ------------------------------------------------------------------ *)
(* putStreamContext, lines 124-131 (deferred at line 32)               *)
(* ------------------------------------------------------------------ *)

\* Line 125: ctx.reset().
PutReset(p) ==
  /\ call[p].pc = "put_reset"
  /\ ctxs' = [ ctxs EXCEPT ![call[p].ctx] = reset(@) ]
  /\ call' = [ call EXCEPT ![p].pc = "put_send" ]
  /\ UNCHANGED << hist, live, streamContextPoolCh, streamContextPool, now,
                  discarded, peak >>

\* A send to the channel followed by an unconditional Put.
PutToChAndPool(p) ==
  /\ call[p].pc = "put_send"
  /\ Len(streamContextPoolCh) < PoolChCap
  /\ streamContextPoolCh' = Append(streamContextPoolCh, call[p].ctx)
  /\ streamContextPool' = streamContextPool \cup { call[p].ctx }
  /\ call' = [ call EXCEPT ![p].pc = "done", ![p].ctx = NoCtx ]
  /\ hist' = [ hist EXCEPT ![p].nPut = @ + 1 ]
  /\ UNCHANGED << ctxs, live, now, discarded, peak >>

\* A send on the channel without a buffer slot and without a default case:
\* it completes only by handing the context to a call that is receiving.
PutToChWaitsForReceiver(p) ==
  /\ call[p].pc = "put_send"
  /\ \E q \in Calls \ {p} :
       /\ call[q].pc = "get_ch"
       /\ call' = [ call EXCEPT ![p].pc = "done", ![p].ctx = NoCtx,
                                ![q].pc = "read", ![q].ctx = call[p].ctx ]
  /\ hist' = [ hist EXCEPT ![p].nPut = @ + 1 ]
  /\ UNCHANGED << ctxs, live, streamContextPoolCh, streamContextPool, now,
                  discarded, peak >>

\* Line 127: the send to streamContextPoolCh succeeds.
PutToCh(p) ==
  /\ call[p].pc = "put_send"
  /\ Len(streamContextPoolCh) < PoolChCap
  /\ streamContextPoolCh' = Append(streamContextPoolCh, call[p].ctx)
  /\ call' = [ call EXCEPT ![p].pc = "done", ![p].ctx = NoCtx ]
  /\ hist' = [ hist EXCEPT ![p].nPut = @ + 1 ]
  /\ UNCHANGED << ctxs, live, streamContextPool, now, discarded, peak >>

\* A default case that does nothing: the context is dropped.
PutChFullDrops(p) ==
  /\ call[p].pc = "put_send"
  /\ Len(streamContextPoolCh) >= PoolChCap
  /\ call' = [ call EXCEPT ![p].pc = "done", ![p].ctx = NoCtx ]
  /\ hist' = [ hist EXCEPT ![p].nPut = @ + 1 ]
  /\ UNCHANGED << ctxs, live, streamContextPoolCh, streamContextPool,
                  now, discarded, peak >>

\* Line 128: the channel is full, the select takes its default case.
PutChFull(p) ==
  /\ call[p].pc = "put_send"
  /\ Len(streamContextPoolCh) >= PoolChCap
  /\ call' = [ call EXCEPT ![p].pc = "put_pool" ]
  /\ UNCHANGED << hist, ctxs, live, streamContextPoolCh, streamContextPool,
                  now, discarded, peak >>

\* Line 129: streamContextPool.Put(ctx).
PutToPool(p) ==
  /\ call[p].pc = "put_pool"
  /\ streamContextPool' = streamContextPool \cup { call[p].ctx }
  /\ call' = [ call EXCEPT ![p].pc = "done", ![p].ctx = NoCtx ]
  /\ hist' = [ hist EXCEPT ![p].nPut = @ + 1 ]
  /\ UNCHANGED << ctxs, live, streamContextPoolCh, now, discarded, peak >>

(* ------------------------------------------------------------------ *)
(* Specifications                                                      *)
(* ------------------------------------------------------------------ *)

\* Concurrent callers sharing the pool. Their sources are connections that
\* never stall, so no refill times out and the clock stands still.
Next ==
  \/ PoolGC
  \/ \E p \in Calls :
       \/ ParseStream(p, BOOLEAN, {TRUE})
       \/ ParseStreamGzipError(p, {TRUE})
       \/ GetFromCh(p)
       \/ GetChEmpty(p)
       \/ GetFromPool(p)
       \/ GetPoolEmpty(p)
       \/ GetNew(p)
       \/ ReadStart(p)
       \/ ReadDeadlineError(p)
       \/ RefillData(p, NewBytes, MaxSent)
       \/ RefillEOF(p, NewBytes, MaxSent)
       \/ RefillError(p, NewBytes, MaxSent)
       \/ CallbackOk(p)
       \/ CallbackError(p)
       \/ ReturnError(p)
       \/ PutReset(p)
       \/ PutToCh(p)
       \/ PutChFull(p)
       \/ PutToPool(p)

Spec == Init /\ [][Next]_vars

\* One caller, one call after the other, reading an uncompressed source
\* that may stall. With a single caller the channel is never full at a
\* release and sync.Pool is never used.
StreamCalls == {1}

NextStream ==
  \E p \in StreamCalls :
    \/ ParseStream(p, {FALSE}, BOOLEAN)
    \/ GetFromCh(p)
    \/ GetChEmpty(p)
    \/ GetPoolEmpty(p)
    \/ GetNew(p)
    \/ ReadStart(p)
    \/ ReadDeadlineError(p)
    \/ RefillData(p, StreamNewBytes, MaxStreamSent)
    \/ RefillTimeout(p, StreamNewBytes, MaxStreamSent)
    \/ RefillEOF(p, StreamNewBytes, MaxStreamSent)
    \/ RefillError(p, StreamNewBytes, MaxStreamSent)
    \/ CallbackOk(p)
    \/ CallbackError(p)
    \/ ReturnError(p)
    \/ PutReset(p)
    \/ PutToCh(p)

SpecStream == Init /\ [][NextStream]_vars

\* A user of a context other than ParseStream's loop: after Read returned
\* false it calls ctx.Read(r) again on the same context.
ReadAgain(p) ==
  /\ call[p].pc = "exit"
  /\ hist[p].nRead < MaxReads
  /\ call' = [ call EXCEPT ![p].pc = "read" ]
  /\ UNCHANGED << hist, ctxs, live, streamContextPoolCh, streamContextPool,
                  now, discarded, peak >>

\* One caller that may call Read again after it returned false, reading a
\* connection that delivers a line and the start of the next one at a time.
NextRead ==
  \E p \in StreamCalls :
    \/ ParseStream(p, {FALSE}, BOOLEAN)
    \/ GetFromCh(p)
    \/ GetChEmpty(p)
    \/ GetPoolEmpty(p)
    \/ GetNew(p)
    \/ ReadStart(p)
    \/ ReadAgain(p)
    \/ ReadDeadlineError(p)
    \/ RefillData(p, NewBytes, MaxSent)
    \/ RefillTimeout(p, NewBytes, MaxSent)
    \/ RefillEOF(p, NewBytes, MaxSent)
    \/ RefillError(p, NewBytes, MaxSent)
    \/ CallbackOk(p)
    \/ CallbackError(p)
    \/ ReturnError(p)
    \/ PutReset(p)
    \/ PutToCh(p)

SpecRead == Init /\ [][NextRead]_vars

\* One caller, plain or gzipped source, connection or not.
NextLive ==
  \E p \in StreamCalls :
    \/ ParseStream(p, BOOLEAN, BOOLEAN)
    \/ ParseStreamGzipError(p, BOOLEAN)
    \/ GetFromCh(p)
    \/ GetChEmpty(p)
    \/ GetPoolEmpty(p)
    \/ GetNew(p)
    \/ ReadStart(p)
    \/ ReadDeadlineError(p)
    \/ RefillData(p, NewBytes, MaxSent)
    \/ RefillTimeout(p, NewBytes, MaxSent)
    \/ RefillEOF(p, NewBytes, MaxSent)
    \/ RefillError(p, NewBytes, MaxSent)
    \/ CallbackOk(p)
    \/ CallbackError(p)
    \/ ReturnError(p)
    \/ PutReset(p)
    \/ PutToCh(p)

\* The steps a call takes on its own: they run when the goroutine is
\* scheduled.
OwnStep(p) ==
  \/ GetFromCh(p)
  \/ GetChEmpty(p)
  \/ GetPoolEmpty(p)
  \/ GetNew(p)
  \/ ReadStart(p)
  \/ ReturnError(p)
  \/ PutReset(p)
  \/ PutToCh(p)

\* The goroutine of a call is scheduled again and again; every callback
\* invocation returns; and a source that is read again and again
\* eventually reports end-of-stream or an error that is no timeout.
Fairness ==
  \A p \in StreamCalls :
    /\ WF_vars(OwnStep(p))
    /\ WF_vars(CallbackOk(p) \/ CallbackError(p))
    /\ SF_vars(RefillEOF(p, NewBytes, MaxSent) \/ RefillError(p, NewBytes, MaxSent))

SpecLive == Init /\ [][NextLive]_vars /\ Fairness

(* ------------------------------------------------------------------ *)
(* Properties                                                          *)
(* ------------------------------------------------------------------ *)

\* The context a call holds.
Ctx(p) == ctxs[call[p].ctx]

\* The call has left its loop and is running, or has run, the deferred
\* release.
Leaving(p) == call[p].pc \in {"put_reset", "put_send", "put_pool", "done"}

\* C1: once a callback invocation has returned a non-nil error (the N-th
\* invocation), the call starts no further Read step, performs no further
\* refill and invokes the callback no further time (all three counts stay
\* N), and the value ParseStream returns is that very error.
C1_CallbackAbort ==
  \A p \in Calls :
    hist[p].cbErr # Nil =>
      /\ hist[p].exit = "callback"
      /\ hist[p].nRead = hist[p].nCb
      /\ hist[p].nRefill = hist[p].nCb
      /\ Leaving(p)
      /\ call[p].ret = hist[p].cbErr

\* C1 witness: the second callback invocation returned io.EOF and the call
\* has returned it.
C1_Witness ==
  \E p \in Calls :
    /\ call[p].pc = "done"
    /\ hist[p].cbErr = EOF
    /\ hist[p].nCb = 2
    /\ call[p].ret = EOF

\* C2: when the loop ends because the refill reported end-of-stream, the
\* context's err is io.EOF at that moment, every callback invocation
\* returned nil, and ParseStream returns nil.
C2_CleanEOF ==
  \A p \in Calls :
    hist[p].exit = "eof" =>
      /\ hist[p].cbErr = Nil
      /\ call[p].pc = "exit" => Ctx(p).err = EOF
      /\ call[p].pc # "exit" => Leaving(p) /\ call[p].ret = Nil

\* C2 witness: a call that returned after end-of-stream, with a timed-out
\* and a successful Read step before it.
C2_Witness ==
  \E p \in Calls :
    /\ call[p].pc = "done"
    /\ hist[p].exit = "eof"
    /\ hist[p].timeouts >= 1
    /\ hist[p].nCb >= 2
    /\ hist[p].cbRows # <<>>
    /\ call[p].ret = Nil

\* The step of p is a refill that ended in the way end.
RefillStep(p, end) ==
  /\ call[p].pc = "refill"
  /\ hist'[p].nRefill = hist[p].nRefill + 1
  /\ hist'[p].outcome = end

\* C3, the Read step: a refill that fails with an error that is neither a
\* timeout nor end-of-stream leaves the context's rows as they were, makes
\* Read return false (no callback invocation follows) and records a
\* non-nil error.
C3_ErrorStep ==
  \A p \in Calls :
    RefillStep(p, "error") =>
      /\ ctxs'[call[p].ctx].Rows = Ctx(p).Rows
      /\ ctxs'[call[p].ctx].err # Nil
      /\ call'[p].pc = "exit"
      /\ hist'[p].nCb = hist[p].nCb

\* C3, the call: after such a refill the callback has been invoked once
\* for every earlier Read step and not for the failed one, and ParseStream
\* returns a non-nil error.
C3_ErrorExit ==
  \A p \in Calls :
    hist[p].exit = "error" =>
      /\ hist[p].nCb = hist[p].nRead - 1
      /\ hist[p].cbErr = Nil
      /\ Leaving(p) => call[p].ret # Nil

\* C3: a refill error that is neither a timeout nor end-of-stream stops the
\* Read step without decoding, the callback is not invoked for that step,
\* and ParseStream returns a non-nil error.
C3_ReadError == [][C3_ErrorStep]_vars /\ []C3_ErrorExit

\* C3 witness: the refill of the second Read step failed while the context
\* still held the rows of the first one.
C3_Witness ==
  \E p \in Calls :
    /\ call[p].pc = "exit"
    /\ hist[p].exit = "error"
    /\ hist[p].nRead = 2
    /\ Ctx(p).Rows # <<>>
    /\ Ctx(p).Rows = hist[p].lastBatch

\* The contexts in the bounded tier.
ChSet == { streamContextPoolCh[i] : i \in DOMAIN streamContextPoolCh }

\* The reset state: empty rows, empty buffers, nil error.
IsReset(c) ==
  /\ ctxs[c].Rows = <<>>
  /\ ctxs[c].reqBuf = <<>>
  /\ ctxs[c].tailBuf = <<>>
  /\ ctxs[c].err = Nil

\* The exits of a call that has acquired a context.
LoopExits == {"eof", "error", "deadline", "callback"}

\* C4, the count: a call hands its context back at most once, not before
\* it has left its loop, and has handed it back exactly once and holds it
\* no longer when it has returned, whichever way it left the loop.
C4_ReleasedOnce ==
  \A p \in Calls :
    /\ hist[p].nPut <= 1
    /\ call[p].pc \notin {"idle", "done"} => hist[p].nPut = 0
    /\ call[p].pc = "done" /\ hist[p].exit # "gzip" =>
         /\ hist[p].exit \in LoopExits
         /\ hist[p].nPut = 1
         /\ call[p].ctx = NoCtx

\* C4, the return: at the step by which a call that acquired a context
\* returns, that context is reset and is in one of the two tiers.
C4_ReturnStep ==
  \A p \in Calls :
    call[p].pc # "done" /\ call'[p].pc = "done" /\ hist'[p].exit # "gzip" =>
      /\ call[p].ctx # NoCtx
      /\ ctxs'[call[p].ctx] = NewStreamContext
      /\ \/ \E i \in DOMAIN streamContextPoolCh' :
              streamContextPoolCh'[i] = call[p].ctx
         \/ call[p].ctx \in streamContextPool'

\* C4: every ParseStream call that acquires a context releases it to the
\* pool exactly once before it returns, on every exit path, and at its
\* return the context is reset and in one of the two tiers.
C4_Release == []C4_ReleasedOnce /\ [][C4_ReturnStep]_vars

\* C4 witness: two calls have returned, one after a failed SetReadDeadline
\* and one after a callback error; each released its context once, one
\* into each tier.
C4_Witness ==
  \E p, q \in Calls :
    /\ call[p].pc = "done" /\ hist[p].exit = "deadline" /\ hist[p].nPut = 1
    /\ call[q].pc = "done" /\ hist[q].exit = "callback" /\ hist[q].nPut = 1
    /\ streamContextPoolCh # <<>>
    /\ streamContextPool # {}

\* C5: every context in either tier, and every context a call has just
\* acquired (from the channel, from sync.Pool or newly allocated), has
\* empty rows, empty buffers and a nil error.
C5_PoolIsClean ==
  /\ \A c \in ChSet \cup streamContextPool : IsReset(c)
  /\ \A p \in Calls :
       call[p].pc = "read" /\ hist[p].nRead = 0 =>
         /\ hist[p].gotFrom \in {"ch", "pool", "new"}
         /\ IsReset(call[p].ctx)

\* C5 witness: the one context that exists was released by a call whose
\* SetReadDeadline failed after a Read step had left rows, a block and a
\* partial line in it, and another call has just received it from the
\* channel.
C5_Witness ==
  \E p, q \in Calls :
    /\ call[p].pc = "done"
    /\ hist[p].exit = "deadline"
    /\ hist[p].carried
    /\ hist[p].cbRows # <<>>
    /\ call[q].pc = "read"
    /\ hist[q].nRead = 0
    /\ hist[q].gotFrom = "ch"
    /\ live = { call[q].ctx }

\* C6: no context is held by two calls at once, a context a call holds is
\* in neither tier, and no context is in both tiers or twice in the
\* channel.
C6_Exclusive ==
  /\ \A p, q \in Calls :
       p # q /\ call[p].ctx # NoCtx => call[p].ctx # call[q].ctx
  /\ \A p \in Calls :
       call[p].ctx # NoCtx => call[p].ctx \notin ChSet \cup streamContextPool
  /\ ChSet \cap streamContextPool = {}
  /\ \A i, j \in DOMAIN streamContextPoolCh :
       i # j => streamContextPoolCh[i] # streamContextPoolCh[j]

\* C6 witness: two calls hold contexts at the same time, one of them just
\* recycled from sync.Pool, and the two contexts differ.
C6_Witness ==
  \E p, q \in Calls :
    /\ p # q
    /\ call[p].pc = "read"
    /\ hist[p].gotFrom = "pool"
    /\ call[q].pc = "refill"
    /\ call[p].ctx # call[q].ctx

\* The contexts calls hold.
Held == { call[p].ctx : p \in Calls } \ { NoCtx }

\* The steps of getStreamContext and putStreamContext of caller p.
PoolStep(p) ==
  \/ GetFromCh(p)
  \/ GetChEmpty(p)
  \/ GetFromPool(p)
  \/ GetPoolEmpty(p)
  \/ GetNew(p)
  \/ PutReset(p)
  \/ PutToCh(p)
  \/ PutChFull(p)
  \/ PutToPool(p)

\* C7, the state: every context that exists is held by a call or is in a
\* tier (none is lost), the channel holds no more contexts than its
\* capacity, and a caller inside acquire or release always has a step of
\* its own to take, whatever the tiers hold.
C7_NoLossNoBlock ==
  /\ live = Held \cup ChSet \cup streamContextPool
  /\ Len(streamContextPoolCh) <= PoolChCap
  /\ \A p \in Calls :
       call[p].pc \in {"get_ch", "get_pool", "get_new",
                       "put_reset", "put_send", "put_pool"} =>
         ENABLED PoolStep(p)

\* C7, the release: the select at line 126 puts the context into the
\* channel when the channel has a free slot at that moment and otherwise
\* takes the default case, which puts it into sync.Pool; after either the
\* context is in that tier and not in the other.
C7_ReleaseStep ==
  \A p \in Calls :
    /\ call[p].pc = "put_send" /\ call'[p].pc # "put_send" =>
         IF Len(streamContextPoolCh) < PoolChCap
         THEN /\ call'[p].pc = "done"
              /\ streamContextPoolCh' = Append(streamContextPoolCh, call[p].ctx)
              /\ call[p].ctx \notin streamContextPool'
         ELSE /\ call'[p].pc = "put_pool"
              /\ call'[p].ctx = call[p].ctx
    /\ call[p].pc = "put_pool" /\ call'[p].pc # "put_pool" =>
         /\ call'[p].pc = "done"
         /\ call[p].ctx \in streamContextPool'
         /\ \A i \in DOMAIN streamContextPoolCh' :
              streamContextPoolCh'[i] # call[p].ctx

\* C7: release never loses a context and never blocks; after a release the
\* context is in exactly one tier, the channel if it had a free slot at
\* the attempt and sync.Pool otherwise; the channel never exceeds its
\* capacity; acquire and release always proceed in the caller's own steps.
C7_Release == []C7_NoLossNoBlock /\ [][C7_ReleaseStep]_vars

\* C7 witness: a caller has released its context into sync.Pool because
\* the channel was full, while the other caller, which found both tiers
\* empty, is about to allocate.
C7_Witness ==
  \E p, q \in Calls :
    /\ call[p].pc = "done"
    /\ hist[p].nPut = 1
    /\ streamContextPool # {}
    /\ Len(streamContextPoolCh) = PoolChCap
    /\ call[q].pc \in {"get_ch", "put_send"}

\* Rows r are the rows d of the decoder, up to backfilled timestamps.
RowsMatch(r, d) ==
  /\ Len(r) = Len(d)
  /\ \A i \in DOMAIN d :
       /\ r[i].Metric = d[i].Metric
       /\ d[i].Timestamp # 0 => r[i].Timestamp = d[i].Timestamp

\* C8, the Read step: a refill that fails with a timeout leaves a nil
\* error in the context, the rows are those decoded from the block the
\* refill returned, and Read returns true (the callback comes next).
C8_TimeoutStep ==
  \A p \in Calls :
    RefillStep(p, "timeout") =>
      /\ ctxs'[call[p].ctx].err = Nil
      /\ RowsMatch(ctxs'[call[p].ctx].Rows, Unmarshal(ctxs'[call[p].ctx].reqBuf))
      /\ call'[p].pc = "callback"

\* C8, the loop: after a timed-out refill the callback is invoked with the
\* decoded rows and, when it returned nil, the call is at a further Read
\* step; the call leaves its loop only through that further step or a
\* callback error, and never returns a timeout.
C8_TimeoutLoop ==
  \A p \in Calls :
    /\ ~IsTimeout(call[p].ret)
    /\ hist[p].outcome = "timeout" =>
         /\ call[p].pc = "callback" => hist[p].nCb = hist[p].nRefill - 1
         /\ call[p].pc = "read" =>
              /\ hist[p].nCb = hist[p].nRefill
              /\ hist[p].lastBatch = Ctx(p).Rows
         /\ call[p].pc \notin {"callback", "read"} =>
              \/ hist[p].exit = "callback"
              \/ hist[p].nRead = hist[p].nRefill + 1

\* C8: a refill timeout is cleared, the block is decoded, Read returns
\* true, the callback gets the rows and the loop goes on to another Read
\* step; a timeout never ends the call and is never its error.
C8_TimeoutFlush == [][C8_TimeoutStep]_vars /\ []C8_TimeoutLoop

\* C8 witness: after a timed-out refill the callback received a row and
\* the call is about to start its next Read step.
C8_Witness ==
  \E p \in Calls :
    /\ call[p].pc = "read"
    /\ hist[p].outcome = "timeout"
    /\ hist[p].lastBatch # <<>>
    /\ hist[p].nCb = 2

\* s is a non-empty sequence of lines, each ended by a newline.
Terminated(s) == s # <<>> /\ s[Len(s)] = NL

\* C9: a call on a connection whose source stalled so that at least one
\* refill timed out, then delivered the rest of its lines and ended, has
\* returned nil, has invoked the callback at least twice, and the rows of
\* all callback invocations together are exactly the rows of the whole
\* input: no line lost, duplicated or split in two.
C9_TimeoutFlushExact ==
  \A p \in Calls :
    ( /\ call[p].pc = "done"
      /\ call[p].srcIsConn
      /\ hist[p].exit = "eof"
      /\ hist[p].timeouts >= 1
      /\ Terminated(hist[p].sent) ) =>
        /\ call[p].ret = Nil
        /\ hist[p].nCb >= 2
        /\ RowsMatch(hist[p].cbRows, Unmarshal(hist[p].sent))

\* C10: for an input made of newline-terminated lines, read without a
\* timeout up to end-of-stream, however the source split it into the
\* refills' reads, the batches passed to the callback, concatenated in call
\* order, are the rows of decoding the whole input at once, up to
\* backfilled timestamps.
C10_ChunkingInvariant ==
  \A p \in Calls :
    ( /\ call[p].pc = "done"
      /\ hist[p].exit = "eof"
      /\ hist[p].timeouts = 0
      /\ Terminated(hist[p].sent) ) =>
        RowsMatch(hist[p].cbRows, Unmarshal(hist[p].sent))

\* C10 witness: a two-line input was read in two refills, the first of
\* which ended in the middle of the second line, and the call returned.
C10_Witness ==
  \E p \in Calls :
    /\ call[p].pc = "done"
    /\ hist[p].exit = "eof"
    /\ hist[p].timeouts = 0
    /\ Terminated(hist[p].sent)
    /\ hist[p].carried
    /\ hist[p].nCb = 2
    /\ Len(hist[p].cbRows) = 2

\* The step of p is a refill and the rest of the Read step that made it.
AnyRefillStep(p) ==
  /\ call[p].pc = "refill"
  /\ hist'[p].nRefill = hist[p].nRefill + 1

\* The step is the reset of context c at its release.
ResetStep(c) ==
  \E p \in Calls :
    /\ call[p].pc = "put_reset"
    /\ call[p].ctx = c
    /\ call'[p].pc = "put_send"
    /\ ctxs'[c] = reset(ctxs[c])

\* C11 as stated: a non-nil err is never set back to nil by anything other
\* than the full reset; so a Read step whose refill stored a non-nil error
\* in err (line 55) ends with err non-nil.
C11_NeverClearedByRead ==
  [][ \A p \in Calls :
        (AnyRefillStep(p) /\ hist'[p].stored # Nil) =>
          ctxs'[call[p].ctx].err # Nil ]_vars

\* C11, between steps: an err that is non-nil when a step starts keeps its
\* value through the step, unless the step is the reset at release.
C11_StickyStep ==
  \A c \in CtxIds :
    ctxs[c].err # Nil => ( ctxs'[c].err = ctxs[c].err \/ ResetStep(c) )

\* C11, inside a Read step: the only error the refill stores in err that
\* the same Read step sets back to nil is a timeout.
C11_OnlyTimeoutCleared ==
  \A p \in Calls :
    (AnyRefillStep(p) /\ hist'[p].stored # Nil /\ ctxs'[call[p].ctx].err = Nil) =>
      IsTimeout(hist'[p].stored)

\* C11 amended: seen between Read steps, err goes from nil to a non-nil
\* terminal value at most once between acquire and the reset at release and
\* only that reset makes it nil again; inside a Read step the one non-nil
\* value that is stored and cleared again is a timeout error.
C11_ErrMonotone == [][C11_StickyStep /\ C11_OnlyTimeoutCleared]_vars

\* C11 witness: a call whose refill timed out (the timeout was stored in err
\* and cleared) and whose later refill failed, so that err holds a wrapped
\* terminal error while the call leaves its loop.
C11_Witness ==
  \E p \in Calls :
    /\ call[p].pc = "exit"
    /\ hist[p].timeouts >= 1
    /\ hist[p].exit = "error"
    /\ Ctx(p).err = Wrap("cannot read graphite plaintext protocol data", ErrReset)

\* C12: after a Read step that returns true, the context's rows are the
\* decoder's rows of the block, as many and in the same order; a row the
\* decoder gave the timestamp 0 carries one clock value, the same for all
\* such rows of the step, sampled between the clock at the start of the
\* refill and the clock at the end of the step; a row with a non-zero
\* timestamp carries it unchanged.
C12_BackfillStep ==
  \A p \in Calls :
    (AnyRefillStep(p) /\ call'[p].pc = "callback") =>
      LET c == call[p].ctx
          d == Unmarshal(ctxs'[c].reqBuf)
          r == ctxs'[c].Rows
          filled == { r[i].Timestamp : i \in { j \in DOMAIN d : d[j].Timestamp = 0 } }
      IN /\ Len(r) = Len(d)
         /\ Cardinality(filled) <= 1
         /\ \A ts \in filled : UnixMilli(now) <= ts /\ ts <= UnixMilli(now')
         /\ \A i \in DOMAIN d :
              /\ r[i].Metric = d[i].Metric
              /\ d[i].Timestamp # 0 => r[i].Timestamp = d[i].Timestamp

C12_Backfill == [][C12_BackfillStep]_vars

\* C12 witness: after a stall that moved the clock, a Read step decoded a
\* line without a timestamp followed by a line with one; the first row
\* carries the clock value, the second its own timestamp.
C12_Witness ==
  \E p \in Calls :
    /\ call[p].pc = "callback"
    /\ hist[p].timeouts >= 1
    /\ now > Second
    /\ Len(Ctx(p).Rows) = 2
    /\ Ctx(p).Rows[1].Timestamp = UnixMilli(now)
    /\ Ctx(p).Rows[2] = Row(<<"t">>)

\* The step of p is the start of a Read step on a context whose err is
\* non-nil.
ReadOnErrorStep(p) ==
  /\ call[p].pc = "read"
  /\ Ctx(p).err # Nil
  /\ hist'[p].nRead = hist[p].nRead + 1

\* C13, the step: Read on a context that holds a terminal error returns
\* false, leaves rows, raw buffer, tail buffer and err as they were, sets no
\* deadline and performs no refill (hence no callback follows).
C13_StickyStep ==
  \A p \in Calls :
    ReadOnErrorStep(p) =>
      /\ call'[p].pc = "exit"
      /\ ctxs' = ctxs
      /\ call'[p].deadline = call[p].deadline
      /\ hist'[p].nRefill = hist[p].nRefill
      /\ hist'[p].nCb = hist[p].nCb
      /\ hist'[p].sent = hist[p].sent

\* C13, between steps: a context whose err is non-nil is never at the
\* refill or in front of the callback.
C13_NoWorkOnError ==
  \A p \in Calls :
    call[p].pc \in {"refill", "callback"} => Ctx(p).err = Nil

\* C13: Read on a context that already holds a terminal error returns
\* false and changes nothing, however often it is repeated.
C13_ReadIdempotent == [][C13_StickyStep]_vars /\ []C13_NoWorkOnError

\* C13 witness: after a refill failed on the call's second Read step, Read
\* was called two more times on the context; it still holds the rows of
\* the first step, the bytes of the failed refill and the wrapped error.
C13_Witness ==
  \E p \in Calls :
    /\ call[p].pc = "exit"
    /\ hist[p].exit = "sticky"
    /\ hist[p].outcome = "error"
    /\ hist[p].nRefill = 2
    /\ hist[p].nRead = 4
    /\ Ctx(p).Rows # <<>>
    /\ Ctx(p).reqBuf # <<>>
    /\ Ctx(p).err = Wrap("cannot read graphite plaintext protocol data", ErrReset)

\* C14 as stated: whenever a call whose caller-supplied source is a
\* connection is at the refill, with isGzipped false or true, the read
\* deadline of that connection has been set to the current time plus
\* flushTimeout; a source that is no connection has no deadline.
C14_DeadlineBeforeRefill ==
  \A p \in Calls :
    call[p].pc = "refill" =>
      IF call[p].srcIsConn
      THEN call[p].deadline = now + flushTimeout
      ELSE call[p].deadline = 0

\* The step of p is a Read step on a context without an error that returns
\* false before the refill: SetReadDeadline failed.
DeadlineErrorStep(p) ==
  /\ call[p].pc = "read"
  /\ Ctx(p).err = Nil
  /\ call'[p].pc = "exit"

\* C15, the Read step: a failure to set the read deadline records a
\* non-nil error in err, makes Read return false, performs no refill and no
\* decode (rows, raw buffer and tail buffer stay as they were), and no
\* callback invocation belongs to the step.
C15_DeadlineStep ==
  \A p \in Calls :
    DeadlineErrorStep(p) =>
      LET c == call[p].ctx
      IN /\ ctxs'[c].err # Nil
         /\ ctxs'[c].Rows = ctxs[c].Rows
         /\ ctxs'[c].reqBuf = ctxs[c].reqBuf
         /\ ctxs'[c].tailBuf = ctxs[c].tailBuf
         /\ hist'[p].nRefill = hist[p].nRefill
         /\ hist'[p].nCb = hist[p].nCb
         /\ hist'[p].exit = "deadline"

\* C15, the call: after such a step the refill and the callback have run
\* once for every earlier Read step and not for the failed one, and
\* ParseStream returns a non-nil error.
C15_DeadlineExit ==
  \A p \in Calls :
    hist[p].exit = "deadline" =>
      /\ call[p].pc = "exit" \/ Leaving(p)
      /\ hist[p].nRefill = hist[p].nRead - 1
      /\ hist[p].nCb = hist[p].nRead - 1
      /\ call[p].pc = "exit" => Ctx(p).err # Nil
      /\ Leaving(p) => call[p].ret # Nil

\* C15: a failure to set the read deadline ends the Read step with a
\* terminal error and without refill, decode or callback, and ParseStream
\* returns a non-nil error.
C15_DeadlineFailure == [][C15_DeadlineStep]_vars /\ []C15_DeadlineExit

\* C15 witness: the deadline could not be set in the second Read step of a
\* call whose context held rows and a carried tail; the call returned the
\* wrapped error.
C15_Witness ==
  \E p \in Calls :
    /\ call[p].pc = "done"
    /\ hist[p].exit = "deadline"
    /\ hist[p].nRead = 2
    /\ hist[p].lastBatch # <<>>
    /\ hist[p].carried
    /\ call[p].ret = Wrap("cannot set read deadline", ErrClosed)

\* The step of p is a ParseStream call in which the gzip reader could not
\* be established.
GzipErrorStep(p) ==
  /\ call[p].pc \in {"idle", "done"}
  /\ << call'[p], hist'[p] >> # << call[p], hist[p] >>
  /\ call'[p].pc = "done"
  /\ hist'[p].exit = "gzip"

\* C16, the step: when the gzip reader cannot be established ParseStream
\* returns a non-nil error in that same step; no context is acquired or
\* allocated, and both tiers and every context are as they were.
C16_GzipStep ==
  \A p \in Calls :
    GzipErrorStep(p) =>
      /\ call'[p].isGzipped
      /\ call'[p].ret # Nil
      /\ call'[p].ctx = NoCtx
      /\ streamContextPoolCh' = streamContextPoolCh
      /\ streamContextPool' = streamContextPool
      /\ live' = live
      /\ ctxs' = ctxs

\* C16, the call: such a call has performed no Read step, no refill, no
\* callback invocation and no release.
C16_GzipExit ==
  \A p \in Calls :
    hist[p].exit = "gzip" =>
      /\ call[p].pc = "done"
      /\ call[p].ret # Nil
      /\ hist[p].nRead = 0
      /\ hist[p].nRefill = 0
      /\ hist[p].nCb = 0
      /\ hist[p].nPut = 0

\* C16: with isGzipped set and the gzip reader not established, ParseStream
\* returns a non-nil error at once, acquires no context, performs no Read
\* step, never invokes the callback and leaves both tiers unchanged.
C16_GzipFailure == [][C16_GzipStep]_vars /\ []C16_GzipExit

\* C16 witness: a call failed on the gzip reader while the bounded tier
\* held a context and the other call was in its loop with its own.
C16_Witness ==
  \E p, q \in Calls :
    /\ p # q
    /\ call[p].pc = "done"
    /\ hist[p].exit = "gzip"
    /\ call[p].ret = Wrap("cannot read gzipped lines with Prometheus exposition format",
                          ErrHeader)
    /\ streamContextPoolCh # <<>>
    /\ call[q].pc = "callback"

\* C17: as long as sync.Pool has dropped nothing, the contexts allocated so
\* far (all of them still exist: live grows only at line 120) are at most
\* as many as the most calls that were in progress at one time, from the
\* start of their acquire to the end of their release.
C17_AllocationBound ==
  ~discarded => Cardinality(live) <= peak

\* C17 witness: two calls overlapped, two contexts exist, nothing was
\* dropped, and a call has just recycled a context from the overflow tier
\* while the other call is between the steps of its acquire.
C17_Witness ==
  \E p, q \in Calls :
    /\ p # q
    /\ ~discarded
    /\ peak = 2
    /\ Cardinality(live) = 2
    /\ call[p].pc = "read"
    /\ hist[p].gotFrom = "pool"
    /\ call[q].pc \in {"get_ch", "get_pool", "get_new"}

\* The step of p is a callback invocation.
CallbackStep(p) ==
  /\ call[p].pc = "callback"
  /\ hist'[p].nCb = hist[p].nCb + 1

\* C18, the Read step: when the refill returned no error or a timeout, Read
\* returns true and the callback comes next, whatever the number of rows.
C18_ContinueStep ==
  \A p \in Calls :
    (AnyRefillStep(p) /\ (hist'[p].stored = Nil \/ IsTimeout(hist'[p].stored))) =>
      /\ call'[p].pc = "callback"
      /\ hist'[p].nTrue = hist[p].nTrue + 1

\* C18, the callback: the batch it receives is the context's rows, empty
\* or not.
C18_BatchStep ==
  \A p \in Calls :
    CallbackStep(p) => hist'[p].lastBatch = Ctx(p).Rows

\* C18, the count: the callback has been invoked once for every Read step
\* that returned true, the invocation for the latest one being due while
\* the call is in front of the callback.
C18_OncePerRead ==
  \A p \in Calls :
    hist[p].nCb = hist[p].nTrue - (IF call[p].pc = "callback" THEN 1 ELSE 0)

\* C18: a Read step on a non-fatal path returns true also when no row was
\* decoded, the callback is then invoked with the empty batch, and it is
\* invoked exactly once for every Read step that returned true.
C18_EmptyBatch ==
  [][C18_ContinueStep /\ C18_BatchStep]_vars /\ []C18_OncePerRead

\* C18 witness: a refill that timed out with nothing read and a refill
\* that returned only an empty line each led to a callback invocation with
\* an empty batch.
C18_Witness ==
  \E p \in Calls :
    /\ call[p].pc = "read"
    /\ hist[p].timeouts = 1
    /\ hist[p].outcome = "data"
    /\ hist[p].nTrue = 2
    /\ hist[p].nCb = 2
    /\ hist[p].cbRows = <<>>
    /\ hist[p].lastBatch = <<>>

\* C19, the order: a call runs one thing at a time. In front of the
\* callback the k-th Read step has finished (its refill included) and k-1
\* callback invocations have returned; inside a Read step as many callback
\* invocations have returned as Read steps came before, all with nil.
C19_Alternate ==
  \A p \in Calls :
    /\ hist[p].nCb <= hist[p].nRead
    /\ hist[p].nRead <= hist[p].nCb + 1
    /\ call[p].pc = "callback" =>
         /\ hist[p].nRead = hist[p].nCb + 1
         /\ hist[p].nRefill = hist[p].nRead
    /\ call[p].pc = "read" =>
         /\ hist[p].nRead = hist[p].nCb
         /\ hist[p].cbErr = Nil
    /\ call[p].pc = "refill" =>
         /\ hist[p].nRead = hist[p].nCb + 1
         /\ hist[p].cbErr = Nil

\* C19, the batch: the k-th callback invocation receives the rows decoded
\* from the block of the k-th Read step and no others.
C19_BatchOfStep ==
  \A p \in Calls :
    CallbackStep(p) =>
      /\ hist'[p].nCb = hist[p].nRead
      /\ RowsMatch(hist'[p].lastBatch, Unmarshal(Ctx(p).reqBuf))

\* C19: within a call Read steps and callback invocations alternate; the
\* k-th invocation gets exactly the rows of the k-th Read step and the next
\* Read step starts only after it returned nil.
C19_Alternation == []C19_Alternate /\ [][C19_BatchOfStep]_vars

\* C19 witness: two Read steps decoded one line each and the second
\* callback invocation received only the second line's row.
C19_Witness ==
  \E p \in Calls :
    /\ call[p].pc = "read"
    /\ hist[p].nRead = 2
    /\ hist[p].nCb = 2
    /\ Len(hist[p].cbRows) = 2
    /\ hist[p].cbRows[1].Metric = <<"m">>
    /\ hist[p].lastBatch = << Row(<<"t">>) >>

\* C20, progress: a call that has started returns.
C20_Returns ==
  \A p \in Calls :
    (call[p].pc \notin {"idle", "done"}) ~> (call[p].pc = "done")

\* C20, the converse: a call that has returned left through the failure of
\* the gzip reader, the failure of SetReadDeadline, end-of-stream, a refill
\* error that is no timeout, or a callback error, and returns that path's
\* value.
C20_ExitPaths ==
  \A p \in Calls :
    call[p].pc = "done" =>
      \/ /\ hist[p].exit = "gzip"
         /\ call[p].ret = Wrap("cannot read gzipped lines with Prometheus exposition format",
                               ErrHeader)
      \/ /\ hist[p].exit = "deadline"
         /\ call[p].ret = Wrap("cannot set read deadline", ErrClosed)
      \/ /\ hist[p].exit = "eof"
         /\ hist[p].stored = EOF
         /\ call[p].ret = Nil
      \/ /\ hist[p].exit = "error"
         /\ hist[p].stored = ErrReset
         /\ call[p].ret = Wrap("cannot read graphite plaintext protocol data", ErrReset)
      \/ /\ hist[p].exit = "callback"
         /\ hist[p].cbErr # Nil
         /\ call[p].ret = hist[p].cbErr

\* C20: under fairness, with every callback invocation returning and the
\* source eventually reporting end-of-stream or a non-timeout error, a
\* ParseStream call returns, however many refills time out before; and it
\* returns only through one of the five exits.
C20_Termination == C20_Returns /\ []C20_ExitPaths

\* C20 witness: a call returned after end-of-stream that was preceded by
\* two timed-out refills.
C20_Witness ==
  \E p \in Calls :
    /\ call[p].pc = "done"
    /\ hist[p].exit = "eof"
    /\ hist[p].timeouts = 2
    /\ hist[p].nCb >= 2

====
